---- MODULE Spec2Model ----
(***************************************************************************)
(* State-machine model of the Smart-Production-Scheduler reallocation      *)
(* engine: step1..step4 of functions_part1.py / functions_part2a.py, the   *)
(* validator step6_validate_ai_strategy of functions_part2b.py and the     *)
(* increase / reduction fallback of main_engine.ask_professional_scheduler. *)
(*                                                                         *)
(* Dates are day numbers counted from 2025-12-31 ('2026-01-09' is 9);      *)
(* comparing the ISO date strings of the code is comparing them.  The line *)
(* names "조립1", "조립2", "조립3" are written "Assy1", "Assy2", "Assy3".         *)
(***************************************************************************)
EXTENDS Integers, Sequences, FiniteSets, TLC

VARIABLES
    pc,               \* position in ask_professional_scheduler
    plan_df,          \* the snapshot: sequence of plan rows (never mutated)
    question_date,    \* target date
    target_line,      \* target line
    request,          \* what the question asks: a CAPA percentage or an added quantity
    stock_res,        \* result of step1 (record) or NoResult
    items_with_slack, \* result of step2
    capa_status,      \* the capacity ledger of step3, mutated in place by step6
    capa_initial,     \* the ledger as step3 returned it (history, for the claims)
    constraint_info,  \* result of step4
    operation_mode,   \* "reduce" / "increase" / "none"
    operation_qty,    \* target operation quantity
    proposed,         \* number of proposed moves processed so far (idx of the loop)
    move,             \* the loop variable `move` of step6 (the dict, mutated in place)
    qty,              \* the local `qty` of step6: the requested quantity of `move`
    final_moves,      \* validated moves, later validated + fallback moves
    violations,       \* the violation log
    fb,               \* locals of the fallback planner
    rv                \* result of validating the validated list once more

vars == << pc, plan_df, question_date, target_line, request, stock_res,
           items_with_slack, capa_status, capa_initial, constraint_info,
           operation_mode, operation_qty, proposed, move, qty, final_moves,
           violations, fb, rv >>

inputs == << plan_df, question_date, target_line, request >>

-----------------------------------------------------------------------------
(* Program constants *)

Lines == << "Assy1", "Assy2", "Assy3" >>

LineSet == { Lines[i] : i \in 1..Len(Lines) }

CAPA_LIMITS == [ Assy1 |-> 3300, Assy2 |-> 3700, Assy3 |-> 3600 ]

TODAY == 5

FROZEN_DAYS == 3

DAYS_COUNT == 10

NO_DUE_BUFFER == 999

FUTURE_SCAN_DAYS == 15

INCREASE_SCAN_DAYS == 10

T6Names == { "T6_A", "T6_A2XX_D", "T6_X" }

A2XXNames == { "A2XX_B", "T6_A2XX_D" }

\* "T6" in name.upper()
IsT6(name) == name \in T6Names

\* "A2XX" in name.upper()
IsA2XX(name) == name \in A2XXNames

-----------------------------------------------------------------------------
(* Generic helpers over sequences *)

RECURSIVE SumSeq(_)
SumSeq(s) == IF s = << >> THEN 0 ELSE Head(s) + SumSeq(Tail(s))

Min2(a, b) == IF a < b THEN a ELSE b

Max2(a, b) == IF a > b THEN a ELSE b

MaxOfSet(S) == CHOOSE x \in S : \A y \in S : y <= x

MinOfSet(S) == CHOOSE x \in S : \A y \in S : x <= y

\* the ascending sequence of the integers of S
RECURSIVE SortedSeq(_)
SortedSeq(S) == IF S = {} THEN << >>
                ELSE << MinOfSet(S) >> \o SortedSeq(S \ { MinOfSet(S) })

Take(s, n) == SubSeq(s, 1, Min2(n, Len(s)))

\* Python floor division and modulo by a positive divisor
FloorDiv(a, b) == a \div b

PyMod(a, b) == a % b

Qty0(rows) == [ i \in 1..Len(rows) |-> rows[i].qty_0 ]

Qty1(rows) == [ i \in 1..Len(rows) |-> rows[i].qty_1 ]

\* rows.sort_values('plan_date'): rows of equal date keep their order
RECURSIVE SortByDate(_)
SortByDate(rows) ==
    IF rows = << >> THEN << >>
    ELSE LET d == MinOfSet({ rows[i].plan_date : i \in 1..Len(rows) })
         IN  SelectSeq(rows, LAMBDA r : r.plan_date = d)
                 \o SortByDate(SelectSeq(rows, LAMBDA r : r.plan_date # d))

-----------------------------------------------------------------------------
(* functions_part1.py *)

\* get_workdays_from_db(plan_df, start, 'future', days_count)
FutureWorkdays(df, start, days_count) ==
    Take(SortedSeq({ df[i].plan_date : i \in { j \in 1..Len(df) :
                        df[j].plan_date >= start /\ df[j].is_workday } }),
         days_count)

\* is_workday_in_db(plan_df, date): the flag of the first row of that date
is_workday_in_db(df, date) ==
    LET rows == SelectSeq(df, LAMBDA r : r.plan_date = date)
    IN  IF rows = << >> THEN FALSE ELSE rows[1].is_workday

\* the rows of a line, whatever their date
CurrentStocks_AnyDate(df, date, line) == SelectSeq(df, LAMBDA r : r.line = line)

\* current_stocks of step1
CurrentStocks(df, date, line) ==
    SelectSeq(df, LAMBDA r : r.plan_date = date /\ r.line = line)

\* sum of qty_1 planned on (date, line)
CurrentQty(df, date, line) == SumSeq(Qty1(CurrentStocks(df, date, line)))

StockItems(rows) ==
    LET pos == SelectSeq(rows, LAMBDA r : r.qty_1 > 0)
    IN  [ i \in 1..Len(pos) |->
            [ name |-> pos[i].product_name, qty_1 |-> pos[i].qty_1, plt |-> pos[i].plt ] ]

\* the rule with `>=` for `>` in its first test
MaxMovable_NonStrict(q, cum_slack, future_slack) ==
    IF cum_slack >= 0 THEN cum_slack
    ELSE IF future_slack >= 0 THEN q
    ELSE Max2(0, q + future_slack)

\* the rule without the clamp at zero
MaxMovable_NoClamp(q, cum_slack, future_slack) ==
    IF cum_slack > 0 THEN cum_slack
    ELSE IF future_slack >= 0 THEN q
    ELSE q + future_slack

\* the three-way rule of step2 (lines 131-142)
MaxMovable(q, cum_slack, future_slack) ==
    IF cum_slack > 0 THEN cum_slack
    ELSE IF future_slack >= 0 THEN q
    ELSE Max2(0, q + future_slack)

\* buffer_days of step2 (lines 144-153)
BufferDays(p_series, date) ==
    LET due_dates == { p_series[i].plan_date : i \in { j \in 1..Len(p_series) :
                                                        p_series[j].qty_0 > 0 } }
    IN  IF due_dates = {} THEN NO_DUE_BUFFER ELSE MaxOfSet(due_dates) - date

\* one iteration of the loop of step2 for an item whose series has a row on the date
SlackOfItem(df, item, date) ==
    LET p_series == SortByDate(SelectSeq(df, LAMBDA r : r.product_name = item.name))
        first    == MinOfSet({ i \in 1..Len(p_series) : p_series[i].plan_date = date })
        upto     == SubSeq(p_series, 1, first)
        after    == SelectSeq(p_series, LAMBDA r : r.plan_date > date)
        cumsum_target == SumSeq(Qty0(upto))
        cumsum_actual == SumSeq(Qty1(upto))
        future_slack  == SumSeq(Qty1(after)) - SumSeq(Qty0(after))
        max_movable   == MaxMovable(item.qty_1, cumsum_actual - cumsum_target, future_slack)
    IN  [ name          |-> item.name,
          qty_1         |-> item.qty_1,
          plt           |-> item.plt,
          cumsum_target |-> cumsum_target,
          cumsum_actual |-> cumsum_actual,
          max_movable   |-> max_movable,
          buffer_days   |-> BufferDays(p_series, date),
          movable       |-> max_movable >= item.plt ]

\* step2_calculate_cumulative_slack: an item whose series has no row on the
\* date is skipped (lines 102-103, 112-113)
step2_calculate_cumulative_slack(df, stock) ==
    LET has(it) == \E i \in 1..Len(df) :
                      df[i].product_name = it.name /\ df[i].plan_date = stock.date
        items   == SelectSeq(stock.items, has)
    IN  [ i \in 1..Len(items) |-> SlackOfItem(df, items[i], stock.date) ]

\* the manual scan of step3 (lines 204-209), used when the calendar lookup is empty
SynthWorkdays(df, date) ==
    SortedSeq({ date + i : i \in { k \in 1..DAYS_COUNT : is_workday_in_db(df, date + k) } })

LedgerEntry(df, date, line) ==
    [ date      |-> date,
      line      |-> line,
      current   |-> CurrentQty(df, date, line),
      remaining |-> CAPA_LIMITS[line] - CurrentQty(df, date, line),
      max       |-> CAPA_LIMITS[line] ]

\* step3_analyze_destination_capacity: the ledger, keyed by << date, line >>
step3_analyze_destination_capacity(df, date, tline) ==
    LET found  == FutureWorkdays(df, date, DAYS_COUNT)
        future == IF found = << >> THEN SynthWorkdays(df, date) ELSE found
        keys   == { << date, l >> : l \in LineSet \ { tline } }
                    \cup { << future[i], tline >> : i \in 1..Len(future) }
    IN  [ k \in keys |-> LedgerEntry(df, k[1], k[2]) ]

-----------------------------------------------------------------------------
(* functions_part2a.py *)

PossibleLines(name, tline) ==
    IF IsT6(name) THEN LineSet \ { tline }
    ELSE IF IsA2XX(name) THEN { "Assy1", "Assy2" } \ { tline }
    ELSE {}

\* step4_prepare_constraint_info: only the movable items, in order
step4_prepare_constraint_info(items, tline) ==
    LET mv == SelectSeq(items, LAMBDA it : it.movable)
    IN  [ i \in 1..Len(mv) |->
            [ name           |-> mv[i].name,
              qty_1          |-> mv[i].qty_1,
              plt            |-> mv[i].plt,
              max_movable    |-> mv[i].max_movable,
              buffer_days    |-> mv[i].buffer_days,
              possible_lines |-> PossibleLines(mv[i].name, tline),
              is_t6          |-> IsT6(mv[i].name),
              is_a2xx        |-> IsA2XX(mv[i].name) ] ]

-----------------------------------------------------------------------------
(* functions_part2b.py *)

None == << >>

Some(x) == << x >>

\* an entry of the violation log: the emoji prefix, the move index, the message
Entry(mark, idx, text) == [ mark |-> mark, idx |-> idx, text |-> text ]

\* next((x for x in constraint_info if x['name'] == item_name), None)
FindItem(cinfo, name) ==
    LET hits == SelectSeq(cinfo, LAMBDA x : x.name = name)
    IN  IF hits = << >> THEN None ELSE Some(hits[1])

\* check 5 without the restricted-family test
PhysicalViolation_NoRestricted(item, to_line, tline) ==
    IF ~item.is_t6 /\ ~item.is_a2xx /\ to_line # tline THEN "dedicated_other_line"
    ELSE ""

\* [check 5] family / line compatibility (lines 82-96): "" when the move passes
PhysicalViolation(item, to_line, tline) ==
    IF item.is_a2xx /\ to_line = "Assy3" THEN "a2xx_assy3"
    ELSE IF ~item.is_t6 /\ ~item.is_a2xx /\ to_line # tline THEN "dedicated_other_line"
    ELSE ""

\* adj_qty rounded up to the next pallet
AdjQty_RoundUp(remaining, plt) == (FloorDiv(remaining, plt) + 1) * plt

\* adj_qty without the rounding to pallets
AdjQty_NoRounding(remaining, plt) == remaining

\* adj_qty of the auto-shrink (lines 112-113)
AdjQty(remaining, plt) == FloorDiv(remaining, plt) * plt

\* the shrink test with `>` for `>=`
ShrinkGuard_Strict(q, remaining, plt) == q > remaining /\ remaining > plt

\* does the capacity check shrink the move (lines 108-110)
ShrinkGuard(q, remaining, plt) == q > remaining /\ remaining >= plt

\* [check 6] capacity check and adjustment (lines 106-136) for a move whose
\* destination key is in the ledger; `committed` tells whether the loop goes on
\* to check 7
CapaCheck(m, q, key, capa, item, idx) ==
    LET remaining == capa[key].remaining
    IN  IF q > remaining
        THEN IF ShrinkGuard(q, remaining, item.plt)
             THEN [ move      |-> [ m EXCEPT !.qty = AdjQty(remaining, item.plt),
                                             !.plt = Some(FloorDiv(remaining, item.plt)),
                                             !.adjusted = Some(TRUE),
                                             !.original_qty = Some(q) ],
                    capa      |-> [ capa EXCEPT ![key].remaining =
                                                    @ - AdjQty(remaining, item.plt) ],
                    committed |-> TRUE,
                    log       |-> << Entry("OK", idx, "capa_adjusted") >> ]
             ELSE [ move      |-> m,
                    capa      |-> capa,
                    committed |-> FALSE,
                    log       |-> << Entry("X", idx, "capa_insufficient") >> ]
        ELSE [ move      |-> [ m EXCEPT !.adjusted = Some(FALSE),
                                        !.plt = Some(FloorDiv(q, item.plt)) ],
               capa      |-> [ capa EXCEPT ![key].remaining = @ - q ],
               committed |-> TRUE,
               log       |-> << >> ]

Rejected(m, capa, log) == [ move |-> m, capa |-> capa, valid |-> FALSE, log |-> log ]

\* [check 7] workday check (lines 138-146), after the capacity commitment
WorkdayCheck(c, df, to_date, idx) ==
    IF ~is_workday_in_db(df, to_date)
    THEN Rejected(c.move, c.capa, c.log \o << Entry("X", idx, "holiday") >>)
    ELSE [ move |-> c.move, capa |-> c.capa, valid |-> TRUE, log |-> c.log ]

\* one iteration of the loop of step6_validate_ai_strategy (lines 37-146)
ValidateOne(m, idx, capa, cinfo, df, tline) ==
    LET found == FindItem(cinfo, m.item)
        q     == m.qty
    IN  IF found = None
        THEN Rejected(m, capa, << Entry("X", idx, "not_in_list") >>)
        ELSE LET item == found[1]
             IN  IF q > item.max_movable
                 THEN Rejected(m, capa, << Entry("X", idx, "slack_exceeded") >>)
                 ELSE IF PyMod(q, item.plt) # 0
                 THEN Rejected(m, capa, << Entry("X", idx, "not_plt_multiple") >>)
                 ELSE IF ~m.to.sep
                 THEN Rejected(m, capa, << Entry("X", idx, "bad_destination") >>)
                 ELSE IF PhysicalViolation(item, m.to.line, tline) # ""
                 THEN Rejected(m, capa,
                        << Entry("X", idx, PhysicalViolation(item, m.to.line, tline)) >>)
                 ELSE LET key == << m.to.date, m.to.line >>
                      IN  IF key \notin DOMAIN capa
                          THEN Rejected(m, capa, << Entry("WARN", idx, "no_capa_info") >>)
                          ELSE LET c == CapaCheck(m, q, key, capa, item, idx)
                               IN  IF ~c.committed
                                   THEN Rejected(c.move, c.capa, c.log)
                                   ELSE WorkdayCheck(c, df, m.to.date, idx)

-----------------------------------------------------------------------------
(* The snapshots, questions and proposals the model runs on *)

MaxMoves == 2

TargetDates == { 9 }

OtherLines(tline) == SelectSeq(Lines, LAMBDA l : l # tline)

\* a plan row; cal is the set of workdays
Row(name, date, line, q0, q1, plt, cal) ==
    [ product_name |-> name, plan_date |-> date, line |-> line,
      qty_0 |-> q0, qty_1 |-> q1, plt |-> plt, is_workday |-> date \in cal ]

\* Series of the first product of the target line: << due, produced >> per date
SeriesSet ==
    { [ plt |-> 100, d8 |-> << 0, 500 >>,   d9 |-> << 2700, 2600 >>,
        d10 |-> << 400, 0 >>,  d11 |-> << 0, 0 >> ],
      [ plt |-> 50,  d8 |-> << 350, 350 >>, d9 |-> << 150, 150 >>,
        d10 |-> << 0, 200 >>,  d11 |-> << 0, 0 >> ],
      [ plt |-> 50,  d8 |-> << 350, 350 >>, d9 |-> << 150, 150 >>,
        d10 |-> << 80, 0 >>,   d11 |-> << 0, 0 >> ],
      [ plt |-> 50,  d8 |-> << 350, 350 >>, d9 |-> << 150, 150 >>,
        d10 |-> << 300, 0 >>,  d11 |-> << 0, 0 >> ],
      [ plt |-> 50,  d8 |-> << 350, 350 >>, d9 |-> << 250, 150 >>,
        d10 |-> << 0, 200 >>,  d11 |-> << 0, 0 >> ] }

\* Remaining capacity left on the destinations: the two other lines on the
\* target date, the target line on the days around it; t6x is the quantity of
\* a T6 product planned on the last other line
LoadSet ==
    { [ o1 |-> 250, o2 |-> 1000, p8 |-> 250, f10 |-> 250, f11 |-> 1000, t6x |-> 300 ],
      [ o1 |-> 50,  o2 |-> 150,  p8 |-> 0, f10 |-> 150, f11 |-> 50,   t6x |-> 0 ],
      [ o1 |-> -100, o2 |-> 250, p8 |-> 100, f10 |-> 0,   f11 |-> -100, t6x |-> 100 ] }

\* calendars, as the workdays among the days T-1 .. T+2 of a target date T
AllWorkdays == { -1, 0, 1, 2 }

CalendarSet == { AllWorkdays, { -1, 1, 2 }, { -1, 0, 2 } }

FirstNames == { "T6_A", "A2XX_B", "J9_C", "T6_A2XX_D" }

\* the rows of a snapshot: the first product's series on the target line, a
\* second (dedicated) product, and the other products that load the destinations
MkPlan(T, tline, name, ser, load, offs) ==
    LET ol  == OtherLines(tline)
        cal == { T + o : o \in offs }
    IN  << Row(name, T - 1, tline, ser.d8[1], ser.d8[2], ser.plt, cal),
           Row(name, T,     tline, ser.d9[1], ser.d9[2], ser.plt, cal),
           Row(name, T + 1, tline, ser.d10[1], ser.d10[2], ser.plt, cal),
           Row(name, T + 2, tline, ser.d11[1], ser.d11[2], ser.plt, cal),
           Row("J9_E", T,     tline, 0, 200, 100, cal),
           Row("J9_E", T + 2, tline, 200, 0, 100, cal),
           Row("BERGSTROM", T, ol[1], 0, CAPA_LIMITS[ol[1]] - load.o1, 100, cal),
           Row("BERGSTROM", T, ol[2], 0, CAPA_LIMITS[ol[2]] - load.o2 - load.t6x, 100, cal),
           Row("T6_X", T, ol[2], 0, load.t6x, 100, cal),
           Row("BERGSTROM", T - 1, tline, 0,
               CAPA_LIMITS[tline] - load.p8 - ser.d8[2], 100, cal),
           Row("BERGSTROM", T + 1, tline, 0,
               CAPA_LIMITS[tline] - load.f10 - ser.d10[2], 100, cal),
           Row("BERGSTROM", T + 2, tline, 0,
               CAPA_LIMITS[tline] - load.f11 - ser.d11[2], 100, cal) >>

\* a snapshot with no row on the target date and line
EmptyDayPlan(T, tline) ==
    << Row("BERGSTROM", T + 1, tline, 0, 1000, 100, { T + 1 }) >>

Scn(T, l, n, s, ld, c, r) ==
    [ date |-> T, line |-> l, plan |-> MkPlan(T, l, n, s, ld, c), request |-> r ]

DefaultLoad == CHOOSE x \in LoadSet : x.o1 = 250

DefaultSeries == CHOOSE x \in SeriesSet : x.d9[1] = 2700

\* room on the first other line only
FirstLineOnlyLoad ==
    [ o1 |-> 250, o2 |-> 0, p8 |-> 0, f10 |-> 0, f11 |-> 0, t6x |-> 0 ]

\* the days around a target date that lies further from today
WideWorkdays == { -3, -2, -1, 0, 1, 2, 16 }

\* a snapshot that also has room three and two days before the target date and
\* a due date of the first product sixteen days after it
WidePlan(T, tline, name) ==
    LET cal == { T + o : o \in WideWorkdays }
    IN  MkPlan(T, tline, name, DefaultSeries, DefaultLoad, WideWorkdays)
          \o << Row("BERGSTROM", T - 2, tline, 0, CAPA_LIMITS[tline] - 500, 100, cal),
                Row("BERGSTROM", T - 3, tline, 0, CAPA_LIMITS[tline] - 500, 100, cal),
                Row(name, T + 16, tline, 100, 100, DefaultSeries.plt, cal) >>

\* a snapshot in which the first product is also planned on another line on
\* the target date
TwoLinePlan(T, tline, name) ==
    LET cal == { T + o : o \in AllWorkdays }
    IN  MkPlan(T, tline, name, DefaultSeries, DefaultLoad, AllWorkdays)
          \o << Row(name, T, OtherLines(tline)[1], 100, 100, DefaultSeries.plt, cal) >>

Pct(v) == [ kind |-> "pct", value |-> v ]

\* the snapshots and questions of the runs: every series for one product,
\* every line and family, every family and load, every calendar and load, an
\* added quantity, a restricted product planned on the third line, a target
\* date whose eve is frozen, target dates in each of the three past ranges, a
\* product planned on two lines on the target date, a second
\* line whose only free destination is the first line, and a snapshot with
\* nothing planned on the target date and line
Scenarios ==
    UNION { { Scn(T, "Assy1", "T6_A", s, DefaultLoad, AllWorkdays, Pct(v)) :
                s \in SeriesSet, v \in { 5, 75 } }
            \cup { Scn(T, l, n, DefaultSeries, DefaultLoad, AllWorkdays, Pct(75)) :
                l \in LineSet, n \in FirstNames }
            \cup { Scn(T, "Assy1", n, DefaultSeries, ld, AllWorkdays, Pct(75)) :
                n \in FirstNames, ld \in LoadSet }
            \cup { Scn(T, "Assy1", "T6_A", DefaultSeries, ld, c, Pct(75)) :
                c \in CalendarSet, ld \in LoadSet }
            \cup { Scn(T, "Assy1", "T6_A", DefaultSeries, DefaultLoad, c,
                       [ kind |-> "add", value |-> 300 ]) : c \in CalendarSet }
            \cup { Scn(T, "Assy3", "A2XX_B", DefaultSeries, DefaultLoad, AllWorkdays, Pct(5)),
                   Scn(T, "Assy2", "T6_A", DefaultSeries, FirstLineOnlyLoad,
                       AllWorkdays, Pct(75)),
                   Scn(T, "Assy1", "T6_A", DefaultSeries, DefaultLoad, AllWorkdays,
                       [ kind |-> "add", value |-> 600 ]),
                   Scn(TODAY + FROZEN_DAYS, "Assy1", "J9_C", DefaultSeries, DefaultLoad,
                       AllWorkdays, Pct(5)) }
            \cup { [ date |-> T + d, line |-> "Assy1", plan |-> WidePlan(T + d, "Assy1", "J9_C"),
                     request |-> Pct(5) ] : d \in { 0, 5, 11 } }
            \cup { [ date |-> T, line |-> "Assy1", plan |-> TwoLinePlan(T, "Assy1", "T6_A"),
                     request |-> Pct(75) ] }
            \cup { [ date |-> T, line |-> l, plan |-> EmptyDayPlan(T, l),
                     request |-> Pct(75) ] : l \in LineSet }
          : T \in TargetDates }

\* the runs on which the validator is studied: both pallet units, every
\* family, load and calendar
ValidateScenarios ==
    { Scn(T, "Assy1", n, s, ld, c, Pct(5)) :
        T \in TargetDates, n \in FirstNames, ld \in LoadSet,
        s \in { x \in SeriesSet : x.d9[1] = 2700 \/ (x.d9[1] = 150 /\ x.d10[2] = 200) },
        c \in { x \in CalendarSet : 1 \in x } }

\* the runs on which the slack analysis is studied: one product, many series
SlackSeries ==
    { [ plt |-> p, d8 |-> a, d9 |-> << due, q >>, d10 |-> c, d11 |-> << 0, 0 >> ] :
        p \in { 50, 100 },
        a \in { << 0, 0 >>, << 0, 300 >>, << 350, 350 >>, << 100, 0 >> },
        due \in { 0, 150, 250 }, q \in { 150, 300 },
        c \in { << 0, 0 >>, << 0, 200 >>, << 80, 0 >>, << 300, 0 >>, << 500, 0 >> } }

SlackScenarios ==
    { Scn(T, "Assy1", "T6_A", s, DefaultLoad, AllWorkdays, Pct(5)) :
        T \in TargetDates, s \in SlackSeries }

NoMove == [ item |-> "", qty |-> 0, to |-> [ sep |-> FALSE, date |-> 0, line |-> "" ],
            from |-> [ date |-> 0, line |-> "" ],
            plt |-> None, adjusted |-> None, original_qty |-> None ]

\* the origin of a move: 'from' is "date_line"
Origin(date, line) == [ date |-> date, line |-> line ]

Proposal(item, q, to) == [ NoMove EXCEPT !.item = item, !.qty = q, !.to = to ]

Dest(date, line) == [ sep |-> TRUE, date |-> date, line |-> line ]

NoSeparator == [ sep |-> FALSE, date |-> 0, line |-> "" ]

\* what the untrusted proposer may put in a move
ProposedMoves ==
    LET first == plan_df[1].product_name
        T     == question_date
        ol    == OtherLines(target_line)
        ps    == { Proposal(n, q, Dest(d[1], d[2])) :
                     n \in { first, "J9_E" }, q \in { 100, 400 },
                     d \in { << T, ol[1] >>, << T, ol[2] >>, << T + 1, target_line >> } }
                 \cup { Proposal(first, q, Dest(T + 1, target_line)) : q \in { -100, 0, 30 } }
                 \cup { Proposal(first, 100, Dest(T, target_line)),
                        Proposal("T6_GHOST", 100, Dest(T + 1, target_line)),
                        Proposal("J9_E", 100, NoSeparator),
                        Proposal("J9_E", 100, Dest(T + 1, "Assy4")),
                        Proposal("J9_E", 100, Dest(T + 3, target_line)) }
    IN  { [ p EXCEPT !.from = Origin(T, target_line) ] : p \in ps }

NoStock == [ date |-> 0, line |-> "", total |-> 0, items |-> << >> ]

NoFallback ==
    [ items |-> << >>, dates |-> << >>, i |-> 0, j |-> 0, moves |-> << >>,
      log |-> << >>, moved |-> FALSE, current |-> 0, needed |-> 0 ]

NoResult == [ moves |-> << >>, capa |-> << >>, log |-> << >> ]

\* the state at the entry of ask_professional_scheduler for the runs of `scenarios`
InitWith(scenarios) ==
    /\ pc = "step1"
    /\ \E sc \in scenarios :
          /\ question_date = sc.date
          /\ target_line = sc.line
          /\ plan_df = sc.plan
          /\ request = sc.request
    /\ stock_res = NoStock
    /\ items_with_slack = << >>
    /\ capa_status = << >>
    /\ capa_initial = << >>
    /\ constraint_info = << >>
    /\ operation_mode = "none"
    /\ operation_qty = 0
    /\ proposed = 0
    /\ move = NoMove
    /\ qty = 0
    /\ final_moves = << >>
    /\ violations = << >>
    /\ fb = NoFallback
    /\ rv = NoResult

Init == InitWith(Scenarios)

-----------------------------------------------------------------------------
(* main_engine.ask_professional_scheduler, stages 1 to 6 *)

\* [stage 1] lines 108-111
Step1 ==
    /\ pc = "step1"
    /\ LET rows == CurrentStocks(plan_df, question_date, target_line)
       IN  IF rows = << >>
           THEN /\ pc' = "failed"
                /\ UNCHANGED stock_res
           ELSE /\ pc' = "step2"
                /\ stock_res' = [ date  |-> question_date,
                                  line  |-> target_line,
                                  total |-> SumSeq(Qty1(rows)),
                                  items |-> StockItems(rows) ]
    /\ UNCHANGED << inputs, rv, items_with_slack,
                    capa_status, capa_initial, constraint_info, operation_mode,
                    operation_qty, proposed, move, qty, final_moves, violations, fb >>

\* [stage 2] lines 113-117
Step2 ==
    /\ pc = "step2"
    /\ items_with_slack' = step2_calculate_cumulative_slack(plan_df, stock_res)
    /\ pc' = IF items_with_slack' = << >> THEN "failed" ELSE "step3"
    /\ UNCHANGED << inputs, rv, stock_res,
                    capa_status, capa_initial, constraint_info, operation_mode,
                    operation_qty, proposed, move, qty, final_moves, violations, fb >>

\* [stage 3] line 120
Step3 ==
    /\ pc = "step3"
    /\ capa_status' = step3_analyze_destination_capacity(plan_df, question_date, target_line)
    /\ capa_initial' = capa_status'
    /\ pc' = "step4"
    /\ UNCHANGED << inputs, rv, stock_res,
                    items_with_slack, constraint_info, operation_mode,
                    operation_qty, proposed, move, qty, final_moves, violations, fb >>

\* [stage 4] line 123
Step4 ==
    /\ pc = "step4"
    /\ constraint_info' = step4_prepare_constraint_info(items_with_slack, target_line)
    /\ pc' = "step5"
    /\ UNCHANGED << inputs, rv, stock_res,
                    items_with_slack, capa_status, capa_initial, operation_mode,
                    operation_qty, proposed, move, qty, final_moves, violations, fb >>

\* target_qty of lines 133-150
TargetQty(total, tline, req) ==
    IF req.kind = "add" THEN total + req.value
    ELSE FloorDiv(CAPA_LIMITS[tline] * req.value, 100)

\* [stage 5] lines 126-160: the operation mode and quantity
Step5 ==
    /\ pc = "step5"
    /\ LET reduction_needed ==
               stock_res.total - TargetQty(stock_res.total, target_line, request)
       IN  IF reduction_needed > 0
           THEN operation_mode' = "reduce" /\ operation_qty' = reduction_needed
                    /\ pc' = "propose"
           ELSE IF reduction_needed < 0
           THEN operation_mode' = "increase" /\ operation_qty' = -reduction_needed
                    /\ pc' = "propose"
           ELSE operation_mode' = "none" /\ operation_qty' = 0 /\ pc' = "done"
    /\ UNCHANGED << inputs, rv, stock_res,
                    items_with_slack, capa_status, capa_initial, constraint_info,
                    proposed, move, qty, final_moves, violations, fb >>

\* the proposer's answer (lines 176-266) and the entry of step6 (line 31):
\* a move list, an answer without 'moves', a failure replaced by no moves, or
\* an answer whose 'moves' is null, which the loop of step6 cannot iterate
ProposerAnswers ==
    /\ pc = "propose"
    /\ \E shape \in { "moves", "no_moves_key", "failure", "moves_null" } :
          /\ pc' = CASE shape = "moves" -> "validate"
                      [] shape = "moves_null" -> "crashed"
                      [] OTHER -> "branch"
          /\ violations' = IF shape = "no_moves_key"
                           THEN << Entry("X", 0, "no_moves_key") >>
                           ELSE << >>
    /\ UNCHANGED << inputs, rv, stock_res,
                    items_with_slack, capa_status, capa_initial, constraint_info,
                    operation_mode, operation_qty, proposed, move, qty,
                    final_moves, fb >>

\* one iteration of the loop of step6 on the next proposed move
ValidateMove ==
    /\ pc = "validate"
    /\ proposed < MaxMoves
    /\ \E m \in ProposedMoves :
          LET r == ValidateOne(m, proposed + 1, capa_status, constraint_info,
                               plan_df, target_line)
          IN  /\ proposed' = proposed + 1
              /\ move' = r.move
              /\ qty' = m.qty
              /\ capa_status' = r.capa
              /\ final_moves' = IF r.valid THEN Append(final_moves, r.move)
                                ELSE final_moves
              /\ violations' = violations \o r.log
    /\ UNCHANGED << pc, inputs, rv, stock_res,
                    items_with_slack, capa_initial, constraint_info,
                    operation_mode, operation_qty, fb >>

\* the loop of step6 ends and step6 returns (line 148)
EndValidate ==
    /\ pc = "validate"
    /\ pc' = "branch"
    /\ move' = NoMove
    /\ qty' = 0
    /\ UNCHANGED << inputs, rv, stock_res,
                    items_with_slack, capa_status, capa_initial, constraint_info,
                    operation_mode, operation_qty, proposed, final_moves,
                    violations, fb >>

-----------------------------------------------------------------------------
(* main_engine.ask_professional_scheduler, stage 6.5: reduction fallback *)

MoveQtys(moves) == [ i \in 1..Len(moves) |-> moves[i].qty ]

\* the test against the whole target instead of 90% of it
Reached90_Full(total, op_qty) == total >= op_qty

\* total >= operation_qty * 0.9
Reached90(total, op_qty) == 10 * total >= 9 * op_qty

\* moved_qty_by_item.get(name, 0) of lines 426-430
MovedQty(moves, name) ==
    SumSeq(MoveQtys(SelectSeq(moves, LAMBDA m : m.item = name)))

\* movable_items of lines 433-441: max_movable is what is left to move
MovableItems(cinfo, moves) ==
    LET left(it) == it.max_movable - MovedQty(moves, it.name)
        keep == SelectSeq(cinfo, LAMBDA it : left(it) >= it.plt)
    IN  [ i \in 1..Len(keep) |-> [ keep[i] EXCEPT !.max_movable = left(keep[i]) ] ]

Candidate(date, line, remaining, current, diff, direction) ==
    [ date |-> date, line |-> line, remaining |-> remaining, current |-> current,
      days_diff |-> diff, direction |-> direction ]

\* transfer_dates of lines 455-469
TransferDates(capa, date, tline) ==
    LET ls == SelectSeq(<< "Assy2", "Assy3" >>, LAMBDA l :
                  /\ l # tline
                  /\ << date, l >> \in DOMAIN capa
                  /\ capa[<< date, l >>].remaining > 0)
    IN  [ i \in 1..Len(ls) |->
            Candidate(date, ls[i], capa[<< date, ls[i] >>].remaining,
                      capa[<< date, ls[i] >>].current, 0, "transfer") ]

\* a past or future candidate on the target line, from the snapshot (lines 483-496)
DateCandidate(df, date, tline, diff, direction) ==
    Candidate(date, tline, CAPA_LIMITS[tline] - CurrentQty(df, date, tline),
              CurrentQty(df, date, tline), diff, direction)

\* future_dates_to_check of lines 472-496, nearest first
FutureDates(df, date, tline) ==
    LET ds == SortedSeq({ date + i : i \in { k \in 1..FUTURE_SCAN_DAYS :
                                              is_workday_in_db(df, date + k) } })
    IN  [ i \in 1..Len(ds) |-> DateCandidate(df, ds[i], tline, ds[i] - date, "future") ]

\* past_range of lines 503-510
PastRange(date) ==
    IF date - TODAY <= 7 THEN 3 ELSE IF date - TODAY <= 14 THEN 2 ELSE 1

\* past_dates_to_check of lines 499-537, sorted by days_diff: farthest first
PastDates(df, date, tline) ==
    LET ds == SortedSeq({ date - i : i \in { k \in 1..PastRange(date) :
                              /\ ~(date - k < TODAY + FROZEN_DAYS \/ date - k < TODAY)
                              /\ is_workday_in_db(df, date - k) } })
    IN  [ i \in 1..Len(ds) |-> DateCandidate(df, ds[i], tline, ds[i] - date, "past") ]

\* all_dates of lines 540-542
AllDates(df, capa, date, tline) ==
    TransferDates(capa, date, tline) \o PastDates(df, date, tline)
        \o FutureDates(df, date, tline)

\* the skip conditions without the buffer_days test
Skips_NoBuffer(item, cand) ==
    \/ cand.remaining < item.plt
    \/ /\ cand.direction = "transfer"
       /\ \/ item.is_a2xx /\ cand.line = "Assy3"
          \/ ~item.is_t6 /\ ~item.is_a2xx

\* the skip conditions of lines 556-567
Skips(item, cand) ==
    \/ cand.remaining < item.plt
    \/ /\ cand.direction = "transfer"
       /\ \/ item.is_a2xx /\ cand.line = "Assy3"
          \/ ~item.is_t6 /\ ~item.is_a2xx
    \/ /\ cand.direction = "future"
       /\ (IF cand.days_diff < 0 THEN -cand.days_diff ELSE cand.days_diff) > item.buffer_days

\* max_plts of lines 569-572
MaxPlts(item, cand) ==
    Min2(FloorDiv(item.max_movable, item.plt), FloorDiv(cand.remaining, item.plt))

\* the move of lines 590-598
FallbackMove(item, cand, date, tline) ==
    [ item |-> item.name, qty |-> MaxPlts(item, cand) * item.plt,
      to |-> Dest(cand.date, IF cand.direction = "transfer" THEN cand.line ELSE tline),
      from |-> Origin(date, tline),
      plt |-> Some(MaxPlts(item, cand)), adjusted |-> Some(FALSE),
      original_qty |-> None ]

\* lines 415-450 and 452-549: is the fallback needed, and with what candidates
ReduceStart ==
    /\ pc = "branch"
    /\ operation_mode = "reduce"
    /\ LET current == SumSeq(MoveQtys(final_moves))
           items   == MovableItems(constraint_info, final_moves)
           dates   == AllDates(plan_df, capa_status, question_date, target_line)
           first   == IF final_moves # << >>
                      THEN Entry("INFO", 0, "fallback_more")
                      ELSE Entry("INFO", 0, "fallback_on")
       IN  IF constraint_info = << >> \/ Reached90(current, operation_qty)
           THEN pc' = "report" /\ UNCHANGED << fb, violations >>
           ELSE IF items = << >>
           THEN /\ pc' = "report"
                /\ violations' = violations \o << Entry("X", 0, "all_items_moved") >>
                /\ UNCHANGED fb
           ELSE /\ fb' = [ items |-> items, dates |-> dates, i |-> 1, j |-> 1,
                           moves |-> << >>,
                           log |-> << first,
                                      IF dates = << >> THEN Entry("X", 0, "no_dates")
                                      ELSE Entry("INFO", 0, "dates_found") >>,
                           moved |-> FALSE, current |-> current,
                           needed |-> Max2(0, operation_qty - current) ]
                /\ pc' = IF dates = << >> THEN "reduce_end" ELSE "reduce_loop"
                /\ UNCHANGED violations
    /\ UNCHANGED << inputs, rv, stock_res,
                    items_with_slack, capa_status, capa_initial, constraint_info,
                    operation_mode, operation_qty, proposed, move, qty, final_moves >>

\* one pass of the inner loop of lines 552-618: item fb.i against candidate fb.j
ReduceStep ==
    /\ pc = "reduce_loop"
    /\ LET item  == fb.items[fb.i]
           cand  == fb.dates[fb.j]
           moves == IF ~Skips(item, cand) /\ MaxPlts(item, cand) > 0
                    THEN Append(fb.moves, FallbackMove(item, cand, question_date, target_line))
                    ELSE fb.moves
           made  == moves # fb.moves
           dates == IF made
                    THEN [ fb.dates EXCEPT ![fb.j].remaining =
                                               @ - MaxPlts(item, cand) * item.plt ]
                    ELSE fb.dates
           reached == made /\ Reached90(fb.current + SumSeq(MoveQtys(moves)), operation_qty)
           log   == fb.log
                      \o (IF made THEN << Entry("OK", 0, "fallback_move") >> ELSE << >>)
                      \o (IF reached THEN << Entry("INFO", 0, "reached_90") >> ELSE << >>)
           last  == fb.j = Len(fb.dates)
       IN  /\ fb' = [ fb EXCEPT !.moves = moves, !.dates = dates, !.log = log,
                                !.moved = IF reached \/ ~last THEN fb.moved \/ made
                                          ELSE FALSE,
                                !.j = IF reached THEN fb.j ELSE IF last THEN 1 ELSE fb.j + 1,
                                !.i = IF reached \/ ~last THEN fb.i ELSE fb.i + 1 ]
           /\ pc' = IF reached \/ (last /\ fb.i = Len(fb.items))
                    THEN "reduce_end" ELSE "reduce_loop"
    /\ UNCHANGED << inputs, rv, stock_res,
                    items_with_slack, capa_status, capa_initial, constraint_info,
                    operation_mode, operation_qty, proposed, move, qty,
                    final_moves, violations >>

\* lines 620-633: the fallback moves join the plan, or the failure is logged
ReduceEnd ==
    /\ pc = "reduce_end"
    /\ IF fb.moves # << >>
       THEN /\ final_moves' = final_moves \o fb.moves
            /\ violations' = violations \o fb.log
       ELSE /\ final_moves' = final_moves
            /\ violations' = violations \o fb.log
                  \o << IF fb.dates # << >> THEN Entry("X", 0, "fallback_failed")
                        ELSE Entry("X", 0, "fallback_failed_no_dates") >>
    /\ pc' = "report"
    /\ UNCHANGED << inputs, rv, stock_res,
                    items_with_slack, capa_status, capa_initial, constraint_info,
                    operation_mode, operation_qty, proposed, move, qty, fb >>

-----------------------------------------------------------------------------
(* main_engine.ask_professional_scheduler, stage 6.5: increase fallback *)

Source(row, diff, direction) ==
    [ date |-> row.plan_date, line |-> row.line, item |-> row.product_name,
      qty |-> row.qty_1, plt |-> row.plt, days_diff |-> diff, direction |-> direction ]

\* future_sources of lines 299-321: rows of the target line, nearest day first
RECURSIVE FutureSources(_, _, _, _)
FutureSources(df, date, tline, i) ==
    IF i > INCREASE_SCAN_DAYS THEN << >>
    ELSE LET rows == SelectSeq(CurrentStocks(df, date + i, tline), LAMBDA r : r.qty_1 > 0)
         IN  [ k \in 1..Len(rows) |-> Source(rows[k], i, "future") ]
                 \o FutureSources(df, date, tline, i + 1)

\* the rows of one other line, of any family
TransferRows_AnyFamily(df, date, line) ==
    SelectSeq(CurrentStocks(df, date, line), LAMBDA r : r.qty_1 > 0)

\* the rows of one other line that can be pulled (lines 329-347): T6 only
TransferRows(df, date, line) ==
    SelectSeq(CurrentStocks(df, date, line),
              LAMBDA r : r.qty_1 > 0 /\ IsT6(r.product_name))

\* transfer_sources of lines 324-347
TransferSources(df, date, tline) ==
    LET from(l) == IF l = tline THEN << >>
                   ELSE [ k \in 1..Len(TransferRows(df, date, l)) |->
                            Source(TransferRows(df, date, l)[k], 0, "transfer") ]
    IN  from("Assy2") \o from("Assy3")

\* all_sources of line 350
AllSources(df, date, tline) ==
    TransferSources(df, date, tline) \o FutureSources(df, date, tline, 1)

\* max_plts of lines 363-366
PullPlts(source, needed) ==
    Min2(FloorDiv(source.qty, source.plt), FloorDiv(needed, source.plt))

\* the move of lines 380-388
IncreaseMove(source, needed, date, tline) ==
    [ item |-> source.item, qty |-> PullPlts(source, needed) * source.plt,
      to |-> Dest(date, tline), from |-> Origin(source.date, source.line),
      plt |-> Some(PullPlts(source, needed)),
      adjusted |-> Some(FALSE), original_qty |-> None ]

\* lines 280-355
IncreaseStart ==
    /\ pc = "branch"
    /\ operation_mode = "increase"
    /\ LET current == SumSeq(MoveQtys(final_moves))
           sources == AllSources(plan_df, question_date, target_line)
           first   == IF final_moves # << >>
                      THEN Entry("INFO", 0, "increase_more")
                      ELSE Entry("INFO", 0, "increase_on")
       IN  IF Reached90(current, operation_qty)
           THEN pc' = "report" /\ UNCHANGED fb
           ELSE /\ fb' = [ items |-> << >>, dates |-> sources, i |-> 1, j |-> 1,
                           moves |-> << >>,
                           log |-> << first,
                                      IF sources = << >> THEN Entry("X", 0, "no_sources")
                                      ELSE Entry("INFO", 0, "sources_found") >>,
                           moved |-> FALSE, current |-> current,
                           needed |-> Max2(0, operation_qty - current) ]
                /\ pc' = IF sources = << >> THEN "increase_end" ELSE "increase_loop"
    /\ UNCHANGED << inputs, rv, stock_res,
                    items_with_slack, capa_status, capa_initial, constraint_info,
                    operation_mode, operation_qty, proposed, move, qty,
                    final_moves, violations >>

\* one pass of the loop of lines 358-402 on source fb.j
IncreaseStep ==
    /\ pc = "increase_loop"
    /\ LET source == fb.dates[fb.j]
           stop  == fb.needed <= 0
           made  == ~stop /\ PullPlts(source, fb.needed) > 0
           moves == IF made
                    THEN Append(fb.moves,
                                IncreaseMove(source, fb.needed, question_date, target_line))
                    ELSE fb.moves
           reached == made /\ Reached90(fb.current + SumSeq(MoveQtys(moves)), operation_qty)
           log   == fb.log
                      \o (IF made THEN << Entry("OK", 0, "increase_move") >> ELSE << >>)
                      \o (IF reached THEN << Entry("INFO", 0, "reached_90") >> ELSE << >>)
           last  == fb.j = Len(fb.dates)
       IN  /\ fb' = [ fb EXCEPT !.moves = moves, !.log = log,
                                !.needed = IF made
                                           THEN @ - PullPlts(source, fb.needed) * source.plt
                                           ELSE @,
                                !.j = IF stop \/ reached \/ last THEN fb.j ELSE fb.j + 1 ]
           /\ pc' = IF stop \/ reached \/ last THEN "increase_end" ELSE "increase_loop"
    /\ UNCHANGED << inputs, rv, stock_res,
                    items_with_slack, capa_status, capa_initial, constraint_info,
                    operation_mode, operation_qty, proposed, move, qty,
                    final_moves, violations >>

\* lines 404-411
IncreaseEnd ==
    /\ pc = "increase_end"
    /\ final_moves' = final_moves \o fb.moves
    /\ violations' = violations \o fb.log
          \o (IF fb.moves = << >> THEN << Entry("X", 0, "increase_failed") >> ELSE << >>)
    /\ pc' = "report"
    /\ UNCHANGED << inputs, rv, stock_res,
                    items_with_slack, capa_status, capa_initial, constraint_info,
                    operation_mode, operation_qty, proposed, move, qty, fb >>

\* [stage 7] lines 636-655: the report is generated and the run returns
Report ==
    /\ pc = "report"
    /\ pc' = "done"
    /\ UNCHANGED << inputs, rv, stock_res,
                    items_with_slack, capa_status, capa_initial, constraint_info,
                    operation_mode, operation_qty, proposed, move, qty,
                    final_moves, violations, fb >>

\* step6_validate_ai_strategy as a whole (lines 34-148): the loop over `moves`
\* from index idx on; acc holds validated_moves, capa_status and violations
RECURSIVE ValidateAll(_, _, _, _, _, _)
ValidateAll(moves, idx, acc, cinfo, df, tline) ==
    IF idx > Len(moves) THEN acc
    ELSE LET r == ValidateOne(moves[idx], idx, acc.capa, cinfo, df, tline)
         IN  ValidateAll(moves, idx + 1,
                         [ moves |-> IF r.valid THEN Append(acc.moves, r.move)
                                     ELSE acc.moves,
                           capa  |-> r.capa,
                           log   |-> acc.log \o r.log ],
                         cinfo, df, tline)

\* step6 called once more, with the validated list as the proposal and the
\* ledger as step3 computes it
Revalidate ==
    /\ pc = "branch"
    /\ rv' = ValidateAll(final_moves, 1,
                         [ moves |-> << >>, capa |-> capa_initial, log |-> << >> ],
                         constraint_info, plan_df, target_line)
    /\ pc' = "revalidated"
    /\ UNCHANGED << inputs, stock_res, items_with_slack, capa_status, capa_initial,
                    constraint_info, operation_mode, operation_qty, proposed, move,
                    qty, final_moves, violations, fb >>

Next ==
    \/ Step1
    \/ Step2
    \/ Step3
    \/ Step4
    \/ Step5
    \/ ProposerAnswers
    \/ ValidateMove
    \/ EndValidate
    \/ ReduceStart
    \/ ReduceStep
    \/ ReduceEnd
    \/ IncreaseStart
    \/ IncreaseStep
    \/ IncreaseEnd
    \/ Report

Spec == Init /\ [][Next]_vars

\* stages 1 to 4 on many series of one product
NextSlack == Step1 \/ Step2 \/ Step3 \/ Step4

SpecSlack == InitWith(SlackScenarios) /\ [][NextSlack]_vars

\* stages 1 to 6, and the validator run again on its own output
NextValidate ==
    \/ Step1
    \/ Step2
    \/ Step3
    \/ Step4
    \/ Step5
    \/ ProposerAnswers
    \/ ValidateMove
    \/ EndValidate
    \/ Revalidate

SpecValidate == InitWith(ValidateScenarios) /\ [][NextValidate]_vars

-----------------------------------------------------------------------------
(* The claims *)

\* produced minus due over the rows of a product dated strictly after `date`
FutureSlackOf(df, name, date) ==
    LET after == SelectSeq(df, LAMBDA r : r.product_name = name /\ r.plan_date > date)
    IN  SumSeq(Qty1(after)) - SumSeq(Qty0(after))

CumSlackOf(it) == it.cumsum_actual - it.cumsum_target

\* C8: for every product of the slack analysis, with q its target-day quantity,
\* cumulativeSlack = cumProduced - cumDue and futureSlack = produced - due
\* strictly after the target date: maxMovable is cumulativeSlack when that is
\* positive, else q when futureSlack >= 0, else max(0, q + futureSlack).
C8_SlackRule ==
    \A i \in 1..Len(items_with_slack) :
        LET it == items_with_slack[i]
            fs == FutureSlackOf(plan_df, it.name, question_date)
        IN  /\ CumSlackOf(it) > 0 => it.max_movable = CumSlackOf(it)
            /\ (CumSlackOf(it) <= 0 /\ fs >= 0) => it.max_movable = it.qty_1
            /\ (CumSlackOf(it) <= 0 /\ fs < 0 /\ it.qty_1 + fs >= 0)
                   => it.max_movable = it.qty_1 + fs
            /\ (CumSlackOf(it) <= 0 /\ fs < 0 /\ it.qty_1 + fs < 0)
                   => it.max_movable = 0

\* C8 witness: cumulative slack 0, 150 on the day, a future deficit of 80: 70
C8_Witness ==
    \E i \in 1..Len(items_with_slack) :
        LET it == items_with_slack[i]
        IN  /\ CumSlackOf(it) = 0
            /\ it.qty_1 = 150
            /\ FutureSlackOf(plan_df, it.name, question_date) = -80
            /\ it.max_movable = 70

\* C9: for every product of the slack analysis, maxMovable >= 0 and movable
\* is true exactly when maxMovable >= palletUnit.
C9_NonNegativeAndMovable ==
    \A i \in 1..Len(items_with_slack) :
        /\ items_with_slack[i].max_movable >= 0
        /\ items_with_slack[i].movable
              <=> (items_with_slack[i].max_movable >= items_with_slack[i].plt)

\* C9 witness: a product whose future deficit exceeds the day's quantity is
\* clamped to 0 and not movable, next to a movable one
C9_Witness ==
    /\ \E i \in 1..Len(items_with_slack) :
          /\ items_with_slack[i].qty_1
                + FutureSlackOf(plan_df, items_with_slack[i].name, question_date) < 0
          /\ CumSlackOf(items_with_slack[i]) <= 0
          /\ items_with_slack[i].max_movable = 0
          /\ ~items_with_slack[i].movable
    /\ \E i \in 1..Len(items_with_slack) : items_with_slack[i].movable

\* the ledger key a move names
KeyOf(m) == << m.to.date, m.to.line >>

\* the capacity check committed the move: it was accepted as is or shrunk
Committed(m) == m.adjusted # None

\* C2: within step6, after every move that is accepted or auto-shrunk, the
\* `remaining` of its destination ledger entry is >= 0, whatever the proposed
\* quantities and the initial ledger values.
C2_RemainingNonNegative ==
    (pc = "validate" /\ Committed(move))
        => capa_status[KeyOf(move)].remaining >= 0

\* C2 witness: a shrunk move and a move of a negative quantity were committed,
\* on a ledger that holds a negative entry
C2_Witness ==
    /\ pc = "validate"
    /\ proposed = 2
    /\ Committed(move)
    /\ move.adjusted = Some(TRUE)
    /\ capa_status[KeyOf(move)].remaining = 50
    /\ \E i \in 1..Len(final_moves) : final_moves[i].qty < 0
    /\ \E k \in DOMAIN capa_initial : capa_initial[k].remaining < 0

\* the move passed the item, slack, pallet, parse and compatibility checks and
\* its destination is in the ledger
ReachesCapaCheck(m, q) ==
    /\ FindItem(constraint_info, m.item) # None
    /\ q <= FindItem(constraint_info, m.item)[1].max_movable
    /\ q % FindItem(constraint_info, m.item)[1].plt = 0
    /\ m.to.sep
    /\ ~(IsA2XX(m.item) /\ m.to.line = "Assy3")
    /\ ~(~IsT6(m.item) /\ ~IsA2XX(m.item) /\ m.to.line # target_line)
    /\ KeyOf(m) \in DOMAIN capa_status

PltOf(name) == FindItem(constraint_info, name)[1].plt

\* C10: a proposed move that passed the checks before the capacity check, with
\* qty > remaining at its destination: when remaining >= palletUnit its qty
\* becomes floor(remaining / palletUnit) * palletUnit, adjusted = true,
\* originalQty = the requested qty and remaining is decremented by the
\* adjusted qty; when remaining < palletUnit it is rejected and the ledger is
\* unchanged.
C10_AutoShrink ==
    [][ (/\ pc = "validate"
         /\ proposed' = proposed + 1
         /\ ReachesCapaCheck(move', qty')
         /\ qty' > capa_status[KeyOf(move')].remaining)
        => LET rem == capa_status[KeyOf(move')].remaining
               plt == PltOf(move'.item)
               adj == (rem \div plt) * plt
           IN  IF rem >= plt
               THEN /\ move'.qty = adj
                    /\ move'.adjusted = Some(TRUE)
                    /\ move'.original_qty = Some(qty')
                    /\ capa_status'[KeyOf(move')].remaining = rem - adj
                    /\ \A k \in DOMAIN capa_status \ { KeyOf(move') } :
                          capa_status'[k] = capa_status[k]
               ELSE /\ capa_status' = capa_status
                    /\ final_moves' = final_moves
                    /\ move'.qty = qty'
                    /\ violations' = Append(violations,
                                            Entry("X", proposed', "capa_insufficient"))
      ]_vars

\* C10 witness: 400 asked against remaining 250 at pallet 100 became 200, and
\* an earlier move was rejected for want of one pallet of capacity
C10_Witness ==
    /\ pc = "validate"
    /\ qty = 400
    /\ move.qty = 200
    /\ move.adjusted = Some(TRUE)
    /\ move.original_qty = Some(400)
    /\ capa_initial[KeyOf(move)].remaining = 250
    /\ capa_status[KeyOf(move)].remaining = 50
    /\ \E i \in 1..Len(violations) : violations[i].text = "capa_insufficient"

SameMove(a, b) == a.item = b.item /\ a.qty = b.qty /\ a.to = b.to

\* C7: validating the validated list V again as the proposal, against a fresh
\* copy of the initial ledger, returns V unchanged, with no move marked
\* adjusted and no entry in the violation log.
C7_Idempotent ==
    pc = "revalidated"
        => /\ Len(rv.moves) = Len(final_moves)
           /\ \A i \in 1..Len(final_moves) :
                 /\ SameMove(rv.moves[i], final_moves[i])
                 /\ rv.moves[i].adjusted = Some(FALSE)
           /\ rv.log = << >>

\* C7 witness: a validated list of two moves, one of them shrunk in the first
\* pass, out of a proposal with a rejected move, was validated again
C7_Witness ==
    /\ pc = "revalidated"
    /\ Len(final_moves) = 2
    /\ \E i \in 1..2 : final_moves[i].adjusted = Some(TRUE)
    /\ \E i \in 1..2 : final_moves[i].adjusted = Some(FALSE)
    /\ Len(rv.moves) = 2

\* the rows of a product dated up to and including d
RowsUpTo(df, name, d) ==
    SelectSeq(df, LAMBDA r : r.product_name = name /\ r.plan_date <= d)

CumDue(df, name, d) == SumSeq(Qty0(RowsUpTo(df, name, d)))

CumProduced(df, name, d) == SumSeq(Qty1(RowsUpTo(df, name, d)))

SeriesDates(df, name) ==
    { df[i].plan_date : i \in { j \in 1..Len(df) : df[j].product_name = name } }

\* cumulative produced covers cumulative due at every date of the series
Covered(df, name) ==
    \A d \in SeriesDates(df, name) : CumProduced(df, name, d) >= CumDue(df, name, d)

\* the same once q units are moved from date `from` to the later date `to`
CoveredAfterMove(df, name, from, to, q) ==
    \A d \in SeriesDates(df, name) :
        CumProduced(df, name, d) - (IF from <= d /\ d < to THEN q ELSE 0)
            >= CumDue(df, name, d)

\* C1: for every product whose cumulative produced covers its cumulative due
\* at every date of its series before the run, a move the validator accepts
\* from the target date to a later date leaves cumulative produced >=
\* cumulative due at every date of the series, the target date included.
C1_DeliverySafe ==
    pc \in { "validate", "branch" }
        => \A i \in 1..Len(final_moves) :
              LET m == final_moves[i]
              IN  (/\ m.to.line = target_line
                   /\ m.to.date > question_date
                   /\ Covered(plan_df, m.item))
                  => CoveredAfterMove(plan_df, m.item, question_date, m.to.date, m.qty)

\* total quantity of the moves into a destination
SumInto(moves, k) == SumSeq(MoveQtys(SelectSeq(moves, LAMBDA m : KeyOf(m) = k)))

\* C3: for every destination (date, line), the total quantity of all moves of
\* the final plan of a reduction run into it (validated moves plus fallback
\* moves) never exceeds that destination's initial remaining capacity
\* (maxCapacity - currentQty).
C3_SharedLedger ==
    (pc = "done" /\ operation_mode = "reduce")
        => \A i \in 1..Len(final_moves) :
              LET k == KeyOf(final_moves[i])
              IN  SumInto(final_moves, k)
                     <= CAPA_LIMITS[k[2]] - CurrentQty(plan_df, k[1], k[2])

\* the pallet unit of a product in the snapshot
PalletUnit(name) ==
    SelectSeq(plan_df, LAMBDA r : r.product_name = name)[1].plt

GoodQty(m) == m.qty > 0 /\ m.qty % PalletUnit(m.item) = 0

\* C4: every move in the validator's output and every move generated by the
\* reduction or increase fallback has qty > 0 and qty an exact multiple of the
\* item's pallet unit.
C4_PalletMultiples ==
    /\ \A i \in 1..Len(final_moves) : GoodQty(final_moves[i])
    /\ \A i \in 1..Len(fb.moves) : GoodQty(fb.moves[i])

\* C5: after step6 has processed a proposal list, for every ledger key the
\* initial `remaining` minus the sum of the qty of the validated moves whose
\* destination is that key equals the final `remaining`.
C5_Conservation ==
    pc \in { "validate", "branch" }
        => \A k \in DOMAIN capa_status :
              capa_initial[k].remaining - SumInto(final_moves, k)
                  = capa_status[k].remaining

CountMarks(log, marks) == Len(SelectSeq(log, LAMBDA e : e.mark \in marks))

\* C6: every proposed move ends in exactly one disposition: it is in the
\* validated list, with an adjustment entry in the log iff it was shrunk, or it
\* has exactly one rejection entry; never both an adjustment entry and a
\* rejection entry, and never neither.
C6_OneDisposition ==
    [][ (pc = "validate" /\ proposed' = proposed + 1)
        => LET new == SubSeq(violations', Len(violations) + 1, Len(violations'))
               rej == CountMarks(new, { "X", "WARN" })
               adj == CountMarks(new, { "OK" })
           IN  IF Len(final_moves') = Len(final_moves) + 1
               THEN rej = 0 /\ (adj = 1 <=> move'.adjusted = Some(TRUE)) /\ adj <= 1
               ELSE rej = 1 /\ adj = 0
      ]_vars

\* the step is one iteration of the validator's loop
ValidatesOne == pc = "validate" /\ proposed' = proposed + 1

\* C11: the validator rejects every proposed move of an A2XX item whose
\* destination line is Assy3, whatever its qty, the item's slack and the
\* destination's capacity: the move does not join the validated list and the
\* ledger is not decremented for it.
C11_RestrictedRejected ==
    [][ (/\ ValidatesOne
         /\ IsA2XX(move'.item)
         /\ move'.to.sep
         /\ move'.to.line = "Assy3")
        => /\ final_moves' = final_moves
           /\ capa_status' = capa_status
           /\ Len(violations') = Len(violations) + 1
           /\ violations'[Len(violations')].mark = "X"
      ]_vars

\* C11 witness: an A2XX item with slack for the proposed quantity, proposed to
\* Assy3 on a workday where the ledger has room for it, was rejected by check 5
C11_Witness ==
    /\ pc = "validate"
    /\ proposed > 0
    /\ IsA2XX(move.item)
    /\ move.to.line = "Assy3"
    /\ FindItem(constraint_info, move.item) # None
    /\ move.qty <= FindItem(constraint_info, move.item)[1].max_movable
    /\ KeyOf(move) \in DOMAIN capa_status
    /\ capa_status[KeyOf(move)].remaining >= move.qty
    /\ is_workday_in_db(plan_df, move.to.date)
    /\ violations[Len(violations)] = Entry("X", proposed, "a2xx_assy3")

\* a name that matches neither marker
Dedicated(name) == ~IsT6(name) /\ ~IsA2XX(name)

C13_WorkdayDestinations ==
    \A i \in 1..Len(final_moves) : is_workday_in_db(plan_df, final_moves[i].to.date)

\* C14: if the proposer's answer has no `moves` field or a malformed one
\* (present but not a list of move records, e.g. null), the run does not
\* abort: validation yields zero validated moves and a logged parse-failure
\* entry, and the fallback planner then runs as for an empty proposal.
C14_MalformedAnswerHandled ==
    /\ pc # "crashed"
    /\ (pc = "branch" /\ proposed = 0 /\ violations # << >>)
           => final_moves = << >> /\ violations = << Entry("X", 0, "no_moves_key") >>

\* the fallback planners' failure and exhaustion entries
FailureTexts ==
    { "all_items_moved", "no_dates", "fallback_failed", "fallback_failed_no_dates",
      "no_sources", "increase_failed" }

\* C15: whenever a run (reduction or increase mode) ends with the total moved
\* quantity below 90% of the target operation quantity, the violation log
\* contains an explicit failure or exhaustion entry of the fallback planner.
C15_ShortfallLogged ==
    (/\ pc = "done"
     /\ operation_mode \in { "reduce", "increase" }
     /\ 10 * SumSeq(MoveQtys(final_moves)) < 9 * operation_qty)
        => \E i \in 1..Len(violations) :
              violations[i].mark = "X" /\ violations[i].text \in FailureTexts

\* the destinations the rules allow for an item of constraint_info: compatible
\* other lines on the target date, allowed past workdays and future workdays
\* within the item's buffer_days on the target line
LegalDestinations(item) ==
    { << question_date, l >> : l \in item.possible_lines }
        \cup { << PastDates(plan_df, question_date, target_line)[i].date, target_line >> :
                 i \in 1..Len(PastDates(plan_df, question_date, target_line)) }
        \cup { << d, target_line >> :
                 d \in { question_date + k : k \in { j \in 1..FUTURE_SCAN_DAYS :
                            /\ is_workday_in_db(plan_df, question_date + j)
                            /\ j <= item.buffer_days } } }

\* remaining capacity of a destination in the snapshot
FreeAt(k) == CAPA_LIMITS[k[2]] - CurrentQty(plan_df, k[1], k[2])

\* some assignment that sends n[i] pallets of item i to one legal destination
\* a[i], within each item's max_movable and each destination's remaining
\* capacity, totals at least 90% of the target
SomeAssignmentReaches90 ==
    LET idx  == 1..Len(constraint_info)
        item(i) == constraint_info[i]
        all  == UNION { LegalDestinations(item(i)) : i \in idx }
        most == MaxOfSet({ 0 } \cup { FloorDiv(item(i).max_movable, item(i).plt) : i \in idx })
        into(a, n, k) == { i \in idx : a[i] = k /\ n[i] > 0 }
        RECURSIVE Total(_, _)
        Total(n, S) == IF S = {} THEN 0
                       ELSE LET i == CHOOSE x \in S : TRUE
                            IN  n[i] * item(i).plt + Total(n, S \ { i })
    IN  /\ all # {}
        /\ \E a \in [ idx -> all ] : \E n \in [ idx -> 0..most ] :
              /\ \A i \in idx : /\ n[i] * item(i).plt <= item(i).max_movable
                                 /\ n[i] > 0 => a[i] \in LegalDestinations(item(i))
              /\ \A k \in all : Total(n, into(a, n, k)) <= FreeAt(k)
              /\ 10 * Total(n, idx) >= 9 * operation_qty

\* C16: with an empty proposal in reduction mode, if some assignment of
\* pallet-multiple quantities of movable items to legal candidate destinations
\* that respects each item's max_movable and each destination's remaining
\* capacity totals at least 90% of the target, then the fallback planner's
\* moves total at least 90% of the target. The assignments looked at here send
\* each item to one destination.
C16_FallbackFindsFeasiblePlan ==
    (/\ pc = "done"
     /\ operation_mode = "reduce"
     /\ proposed = 0
     /\ SomeAssignmentReaches90)
        => 10 * SumSeq(MoveQtys(fb.moves)) >= 9 * operation_qty

\* the snapshot holds no plan row for the requested date and line
NoPlanRow ==
    ~ \E i \in 1..Len(plan_df) :
          plan_df[i].plan_date = question_date /\ plan_df[i].line = target_line

\* C17: when the snapshot holds no plan row for the requested (date, line),
\* step 1 returns a no-data error, the run returns failure immediately and no
\* later stage runs: no slack, ledger, validation or fallback result is
\* computed and no move is produced.
C17_NoDataStops ==
    NoPlanRow
        => /\ pc \in { "step1", "failed" }
           /\ stock_res = NoStock
           /\ items_with_slack = << >>
           /\ capa_status = << >>
           /\ constraint_info = << >>
           /\ operation_mode = "none"
           /\ proposed = 0
           /\ final_moves = << >>
           /\ violations = << >>
           /\ fb = NoFallback

\* C17 witness: step 1 has failed on a snapshot with rows, none of them on the
\* requested date and line
C17_Witness == NoPlanRow /\ pc = "failed" /\ plan_df # << >>

\* C18: in reduction mode, for every item, the sum of the qty of all moves of
\* that item in the final plan (validated moves plus fallback moves, over all
\* destinations) is at most the item's max_movable.
C18_ItemTotalWithinSlack ==
    (pc = "done" /\ operation_mode = "reduce")
        => \A i \in 1..Len(constraint_info) :
              MovedQty(final_moves, constraint_info[i].name)
                  <= constraint_info[i].max_movable

\* validated qty plus fallback qty so far
CumulativeTotal ==
    SumSeq(MoveQtys(final_moves))
        + (IF pc \in { "reduce_loop", "increase_loop" } THEN SumSeq(MoveQtys(fb.moves))
           ELSE 0)

\* C19: the fallback planner appends a move only while the cumulative total
\* (validated qty plus fallback qty so far) is below 90% of the target
\* operation quantity: if the validated total is already >= 90% no fallback
\* move is generated, and in either mode no move is appended after the
\* cumulative total first reaches 90%.
C19_StopsAtNinetyPercent ==
    [][ /\ (pc \in { "reduce_loop", "increase_loop" } /\ Len(fb'.moves) > Len(fb.moves))
            => 10 * CumulativeTotal < 9 * operation_qty
        /\ (pc = "branch" /\ 10 * CumulativeTotal >= 9 * operation_qty)
            => pc' = "report" /\ fb' = fb /\ final_moves' = final_moves
      ]_vars

\* C19 witness: a fallback loop has stopped on reaching 90% although it had
\* another candidate to try
C19_Witness ==
    /\ pc \in { "reduce_end", "increase_end" }
    /\ fb.moves # << >>
    /\ final_moves # << >>
    /\ 10 * (SumSeq(MoveQtys(final_moves)) + SumSeq(MoveQtys(fb.moves)))
           >= 9 * operation_qty
    /\ fb.j < Len(fb.dates)

\* C20: every move generated by the reduction fallback satisfies the
\* validator's family / line compatibility rule, for every target line: the
\* validator's check 5 applied to a fallback move (same item, same destination
\* line) never rejects it; in particular no fallback move has an A2XX item
\* with destination line Assy3.
C20_FallbackCompatible ==
    operation_mode = "reduce"
        => \A i \in 1..Len(fb.moves) :
              LET m == fb.moves[i]
              IN  /\ FindItem(constraint_info, m.item) # None
                  /\ PhysicalViolation(FindItem(constraint_info, m.item)[1],
                                       m.to.line, target_line) = ""
                  /\ ~(IsA2XX(m.item) /\ m.to.line = "Assy3")


\* C21: an item whose name contains the marker T6, whatever else the name
\* contains, may be moved to any of the three lines: the validator never
\* rejects a move of such an item on family / line compatibility grounds, and
\* the reduction fallback never skips a transfer candidate for it on
\* compatibility grounds.
C21_UniversalAnyLine ==
    /\ (pc = "validate" /\ proposed > 0 /\ IsT6(move.item) /\ violations # << >>)
          => ~ /\ violations[Len(violations)].idx = proposed
               /\ violations[Len(violations)].text
                     \in { "a2xx_assy3", "dedicated_other_line" }
    /\ (pc = "reduce_loop" /\ IsT6(fb.items[fb.i].name)
           /\ fb.dates[fb.j].direction = "transfer"
           /\ fb.dates[fb.j].remaining >= fb.items[fb.i].plt)
          => ~Skips(fb.items[fb.i], fb.dates[fb.j])


\* C22: in increase mode the destination capacity is enforced: the quantity
\* planned on the target date and line plus all quantity the increase fallback
\* pulls into it never exceeds the capacity of the target line, for any
\* requested increase.
C22_IncreaseWithinCapacity ==
    operation_mode = "increase"
        => CurrentQty(plan_df, question_date, target_line) + SumSeq(MoveQtys(fb.moves))
              <= CAPA_LIMITS[target_line]


\* C23: in reduction mode, for every target line, the fallback planner's
\* transfer candidates are exactly the same-day entries of every line other
\* than the target line whose remaining capacity is positive, and they precede
\* all past and future candidates in the scan order.
C23_TransferCandidates ==
    (operation_mode = "reduce" /\ pc \in { "reduce_loop", "reduce_end" })
        => LET transfers == { i \in 1..Len(fb.dates) : fb.dates[i].direction = "transfer" }
           IN  /\ { fb.dates[i].line : i \in transfers }
                     = { l \in LineSet \ { target_line } :
                            /\ << question_date, l >> \in DOMAIN capa_status
                            /\ capa_status[<< question_date, l >>].remaining > 0 }
               /\ \A i \in transfers : fb.dates[i].date = question_date
               /\ \A i \in transfers : \A j \in 1..Len(fb.dates) :
                     j \notin transfers => i < j


\* C24: every date-shifting move generated by the reduction fallback lands in
\* its allowed window: a past move's destination is a workday d with
\* today + 3 days <= d < target date and target - d at most 3 days when the
\* target is <= 7 days from today, 2 when <= 14, else 1; a future move's
\* destination is a workday at most 15 days after the target date and at most
\* the item's buffer_days after it.
C24_ShiftWindows ==
    operation_mode = "reduce"
        => \A i \in 1..Len(fb.moves) :
              LET m     == fb.moves[i]
                  d     == m.to.date
                  T     == question_date
                  reach == IF T - TODAY <= 7 THEN 3 ELSE IF T - TODAY <= 14 THEN 2 ELSE 1
              IN  /\ d < T => /\ m.to.line = target_line
                              /\ is_workday_in_db(plan_df, d)
                              /\ TODAY + 3 <= d
                              /\ T - d <= reach
                  /\ d > T => /\ m.to.line = target_line
                              /\ is_workday_in_db(plan_df, d)
                              /\ d - T <= 15
                              /\ d - T <= FindItem(constraint_info, m.item)[1].buffer_days

\* C24 witness: the reduction fallback has made a past move and a future move
C24_Witness ==
    /\ operation_mode = "reduce"
    /\ \E i \in 1..Len(fb.moves) : fb.moves[i].to.date < question_date
    /\ \E i \in 1..Len(fb.moves) : fb.moves[i].to.date > question_date


\* C25: for every item of step 2, cumsum_target is the sum of qty_0 and
\* cumsum_actual the sum of qty_1 over all rows of the item dated up to and
\* including the target date, also when the item has several rows on the
\* target date.
C25_CumulativeOverAllRows ==
    \A i \in 1..Len(items_with_slack) :
        /\ items_with_slack[i].cumsum_target
              = CumDue(plan_df, items_with_slack[i].name, question_date)
        /\ items_with_slack[i].cumsum_actual
              = CumProduced(plan_df, items_with_slack[i].name, question_date)


\* C26: the capacity ledger of step 3 holds, for the target line, only dates
\* strictly after the target date (at most ten, all workdays) and, for every
\* other line, only the target date; it never holds the target date on the
\* target line.
C26_LedgerKeys ==
    capa_initial # NoResult
        => /\ \A k \in DOMAIN capa_initial :
                 IF k[2] = target_line
                 THEN k[1] > question_date /\ is_workday_in_db(plan_df, k[1])
                 ELSE k[1] = question_date
           /\ Cardinality({ k \in DOMAIN capa_initial : k[2] = target_line }) <= 10
           /\ << question_date, target_line >> \notin DOMAIN capa_initial


\* C27: buffer_days of an item is the number of days from the target date to
\* the item's last date with positive due quantity; it is 999 whenever the item
\* has no positive-due date after the target date, and it is never negative.
C27_BufferDays ==
    \A i \in 1..Len(items_with_slack) :
        LET it    == items_with_slack[i]
            later == { plan_df[j].plan_date : j \in { k \in 1..Len(plan_df) :
                          /\ plan_df[k].product_name = it.name
                          /\ plan_df[k].qty_0 > 0
                          /\ plan_df[k].plan_date > question_date } }
        IN  /\ it.buffer_days = IF later = {} THEN 999 ELSE MaxOfSet(later) - question_date
            /\ it.buffer_days >= 0


\* C28: in reduction mode, for every item, the total quantity of the item's
\* moves in the final plan never exceeds the quantity of that item planned on
\* the target date and line, so the quantity left there is never negative,
\* for the item and in total.
C28_MovedWithinPlanned ==
    (pc = "done" /\ operation_mode = "reduce" /\ stock_res # NoStock)
        => /\ \A i \in 1..Len(stock_res.items) :
                 MovedQty(final_moves, stock_res.items[i].name) <= stock_res.items[i].qty_1
           /\ SumSeq(MoveQtys(final_moves)) <= stock_res.total


\* C29: in reduction mode no move counted toward the reduction has a
\* destination equal to its source: no validated move and no fallback move
\* has the destination (target date, target line).
C29_NoSelfMove ==
    operation_mode = "reduce"
        => /\ \A i \in 1..Len(final_moves) :
                 KeyOf(final_moves[i]) # << question_date, target_line >>
           /\ \A i \in 1..Len(fb.moves) :
                 KeyOf(fb.moves[i]) # << question_date, target_line >>


\* C30: a proposed move that the validator rejects, at whichever check, leaves
\* every ledger entry's `remaining` and the move's own qty as they were before
\* the move was processed; only moves that join the validated list change the
\* ledger.
C30_RejectedLeavesNoTrace ==
    [][ (ValidatesOne /\ final_moves' = final_moves)
        => /\ \A k \in DOMAIN capa_status :
                 capa_status'[k].remaining = capa_status[k].remaining
           /\ move'.qty = qty'
      ]_vars

====
